---------------------------- MODULE Spec2Model ----------------------------
(***************************************************************************)
(* Interactive chat client for an Ollama service: the two controllers     *)
(* GemmaChat (src/gemma_interactive.py) and PhiChat                       *)
(* (src/phi_interactive.py), their conversation store and their command   *)
(* dispatcher.  The variable prog says which of the two programs runs.    *)
(*                                                                         *)
(* Python strings are tuples of characters, Python/JSON values are        *)
(* records of one shape (t: the type, s: the text of a scalar, keys and   *)
(* items: the members of a container), and a JSON text is the sequence of *)
(* its tokens.                                                             *)
(***************************************************************************)
EXTENDS Integers, Sequences, FiniteSets, TLC

\* ------------------------------------------------------------------
\* Bounds of the model
\* ------------------------------------------------------------------

\* A prompt turn is taken only while the log holds fewer entries than this.
MaxLog == 2

\* datetime.now() returns an instant in 0..MaxClock.
MaxClock == 1

\* The bytes of a stream arrive cut in up to this many places.
MaxCuts == 2

\* ------------------------------------------------------------------
\* Python strings
\* ------------------------------------------------------------------

\* str.lower() on one character.
LowerChar(c) ==
    CASE c = "M" -> "m"
      [] c = "O" -> "o"
      [] c = "D" -> "d"
      [] c = "E" -> "e"
      [] c = "L" -> "l"
      [] c = "Q" -> "q"
      [] c = "T" -> "t"
      [] c = "Y" -> "y"
      [] OTHER -> c

\* str.lower(), as used on the whole input line (gemma) or on the command
\* token only (phi).
Lower(s) == [i \in 1..Len(s) |-> LowerChar(s[i])]

IsSpace(c) == c = " "

RECURSIVE LStrip(_)
LStrip(s) == IF s # <<>> /\ IsSpace(Head(s)) THEN LStrip(Tail(s)) ELSE s

RECURSIVE RStrip(_)
RStrip(s) ==
    IF s # <<>> /\ IsSpace(s[Len(s)]) THEN RStrip(SubSeq(s, 1, Len(s) - 1)) ELSE s

\* str.strip()
Strip(s) == RStrip(LStrip(s))

\* str.startswith(p) for a one-character prefix p.
StartsWith(s, p) == s # <<>> /\ s[1] = p

\* str.split(): the maximal runs of non-space characters, in order.
RECURSIVE SplitFrom(_, _, _)
SplitFrom(s, cur, acc) ==
    IF s = <<>>
    THEN IF cur = <<>> THEN acc ELSE Append(acc, cur)
    ELSE IF IsSpace(Head(s))
         THEN SplitFrom(Tail(s), <<>>, IF cur = <<>> THEN acc ELSE Append(acc, cur))
         ELSE SplitFrom(Tail(s), Append(cur, Head(s)), acc)

Split(s) == SplitFrom(s, <<>>, <<>>)

\* ------------------------------------------------------------------
\* Python values
\* ------------------------------------------------------------------

PyNone == [t |-> "none", s |-> <<>>, keys |-> <<>>, items |-> <<>>]
PyStr(s) == [t |-> "str", s |-> s, keys |-> <<>>, items |-> <<>>]
PyInt(digits) == [t |-> "int", s |-> digits, keys |-> <<>>, items |-> <<>>]
PyBool(b) ==
    [t |-> "bool", s |-> IF b THEN <<"true">> ELSE <<"false">>,
     keys |-> <<>>, items |-> <<>>]
PyList(items) == [t |-> "list", s |-> <<>>, keys |-> <<>>, items |-> items]
PyDict(keys, vals) == [t |-> "dict", s |-> <<>>, keys |-> keys, items |-> vals]

\* bool(v): Python's truth value.
Truthy(v) ==
    CASE v.t = "none" -> FALSE
      [] v.t = "str" -> v.s # <<>>
      [] v.t = "int" -> v.s # <<"0">>
      [] v.t = "bool" -> v.s = <<"true">>
      [] v.t = "list" -> v.items # <<>>
      [] v.t = "dict" -> v.keys # <<>>

\* Whether len(v) is defined (it raises TypeError on a number).
HasLen(v) == v.t \in {"str", "list", "dict"}

\* len(v), where it is defined.
PyLen(v) ==
    CASE v.t = "str" -> Len(v.s)
      [] v.t = "list" -> Len(v.items)
      [] v.t = "dict" -> Len(v.keys)

\* key in d, for a dict d.
HasKey(d, k) == \E i \in 1..Len(d.keys) : d.keys[i] = k

\* d.get(k, default), for a dict d (the last of several equal keys wins).
DictGet(d, k, default) ==
    IF HasKey(d, k)
    THEN d.items[CHOOSE i \in 1..Len(d.keys) :
                    /\ d.keys[i] = k
                    /\ \A j \in (i + 1)..Len(d.keys) : d.keys[j] # k]
    ELSE default

\* ------------------------------------------------------------------
\* JSON texts: json.dump and json.load
\* ------------------------------------------------------------------

Quote == "\""

\* The token of a JSON string: its characters between quotes.
StrToken(s) == <<Quote>> \o s \o <<Quote>>

IsStrToken(tok) == Len(tok) >= 2 /\ tok[1] = Quote /\ tok[Len(tok)] = Quote

UnquoteToken(tok) == SubSeq(tok, 2, Len(tok) - 1)

IsDigit(c) == c \in {"0", "1", "2", "3", "4", "5", "6", "7", "8", "9"}

IsIntToken(tok) == tok # <<>> /\ \A i \in 1..Len(tok) : IsDigit(tok[i])

\* json.dump(v): the tokens of v's JSON text.
RECURSIVE JsonDump(_)
RECURSIVE DumpItems(_, _)
RECURSIVE DumpMembers(_, _, _)
JsonDump(v) ==
    CASE v.t = "none" -> << <<"null">> >>
      [] v.t = "str" -> << StrToken(v.s) >>
      [] v.t = "int" -> << v.s >>
      [] v.t = "bool" -> << v.s >>
      [] v.t = "list" -> << <<"[">> >> \o DumpItems(v.items, 1) \o << <<"]">> >>
      [] v.t = "dict" -> << <<"{">> >> \o DumpMembers(v.keys, v.items, 1) \o << <<"}">> >>

DumpItems(items, i) ==
    IF i > Len(items) THEN <<>>
    ELSE JsonDump(items[i]) \o DumpItems(items, i + 1)

DumpMembers(keys, vals, i) ==
    IF i > Len(keys) THEN <<>>
    ELSE << StrToken(<<keys[i]>>) >> \o JsonDump(vals[i]) \o DumpMembers(keys, vals, i + 1)

\* The result of parsing: ok, the value read and the index of the next token.
ParseFail == [ok |-> FALSE, val |-> PyNone, next |-> 0]
ParseOk(v, n) == [ok |-> TRUE, val |-> v, next |-> n]

\* The recursive-descent parser of json.load, on tokens toks from index i.
RECURSIVE ParseValue(_, _)
RECURSIVE ParseItems(_, _, _)
RECURSIVE ParseMembers(_, _, _, _)
ParseValue(toks, i) ==
    IF i > Len(toks) THEN ParseFail
    ELSE LET tok == toks[i] IN
         CASE tok = <<"null">> -> ParseOk(PyNone, i + 1)
           [] tok = <<"true">> -> ParseOk(PyBool(TRUE), i + 1)
           [] tok = <<"false">> -> ParseOk(PyBool(FALSE), i + 1)
           [] tok = <<"[">> -> ParseItems(toks, i + 1, <<>>)
           [] tok = <<"{">> -> ParseMembers(toks, i + 1, <<>>, <<>>)
           [] OTHER ->
                IF IsStrToken(tok) THEN ParseOk(PyStr(UnquoteToken(tok)), i + 1)
                ELSE IF IsIntToken(tok) THEN ParseOk(PyInt(tok), i + 1)
                ELSE ParseFail

ParseItems(toks, i, acc) ==
    IF i > Len(toks) THEN ParseFail
    ELSE IF toks[i] = <<"]">> THEN ParseOk(PyList(acc), i + 1)
    ELSE LET r == ParseValue(toks, i) IN
         IF r.ok THEN ParseItems(toks, r.next, Append(acc, r.val)) ELSE ParseFail

ParseMembers(toks, i, keys, vals) ==
    IF i > Len(toks) THEN ParseFail
    ELSE IF toks[i] = <<"}">> THEN ParseOk(PyDict(keys, vals), i + 1)
    ELSE IF ~IsStrToken(toks[i]) \/ Len(toks[i]) # 3 THEN ParseFail
    ELSE LET r == ParseValue(toks, i + 1) IN
         IF r.ok
         THEN ParseMembers(toks, r.next, Append(keys, toks[i][2]), Append(vals, r.val))
         ELSE ParseFail

\* json.load / json.loads: the value, or a JSONDecodeError (ok = FALSE) when
\* the text is no single JSON value.
JsonLoad(toks) ==
    LET r == ParseValue(toks, 1) IN
    IF r.ok /\ r.next = Len(toks) + 1 THEN r ELSE ParseFail

\* ------------------------------------------------------------------
\* Names, paths, lines of input and answers of the service
\* ------------------------------------------------------------------

Digits == <<"0", "1", "2", "3", "4", "5", "6", "7", "8", "9">>

\* datetime.isoformat() of the instant t.
IsoFormat(t) == <<"T", Digits[t + 1]>>

Progs == {"gemma", "phi"}

\* The default of the -m option.
DefaultModel(p) == IF p = "gemma" THEN <<"gemma2:9b">> ELSE <<"phi4-mini:3.8b">>

m1 == <<"m", "1">>
M1 == <<"M", "1">>
M2 == <<"M", "2">>

\* The model names the -m option is given in the model.
ConfiguredModels(p) == {DefaultModel(p), m1}

Host == <<"localhost">>

\* session_start, set by the constructor.
SessionStart == IsoFormat(0)

\* The file name save makes up when it is given none.
DefaultFilename(p) ==
    IF p = "gemma"
    THEN <<"gemma_conversation_">> \o SessionStart \o <<".json">>
    ELSE <<"phi_conversation_">> \o SessionStart \o <<".json">>

\* The paths of files that lie there when the session starts.
pGarbage == <<"g">>
pList == <<"l">>
pNoConv == <<"n">>
pIntConv == <<"i">>
pStrConv == <<"s">>
pOld == <<"o">>

Paths ==
    {<<"t">>, <<"T">>, DefaultFilename("gemma"), DefaultFilename("phi"),
     pGarbage, pList, pNoConv, pIntConv, pStrConv, pOld}

Sp == <<" ">>
wQuit == <<"/", "q", "u", "i", "t">>
wExit == <<"/", "e", "x", "i", "t">>
wQ == <<"/", "q">>
wHelp == <<"/", "h", "e", "l", "p">>
wH == <<"/", "h">>
wModels == <<"/", "m", "o", "d", "e", "l", "s">>
wModel == <<"/", "m", "o", "d", "e", "l">>
wSave == <<"/", "s", "a", "v", "e">>
wLoad == <<"/", "l", "o", "a", "d">>
wClear == <<"/", "c", "l", "e", "a", "r">>
wStats == <<"/", "s", "t", "a", "t", "s">>
wStream == <<"/", "s", "t", "r", "e", "a", "m">>
wHistory == <<"/", "h", "i", "s", "t", "o", "r", "y">>

\* The lines the user types (what input() returns, before strip()).
PromptLines == { <<" ", "a", " ", "/", "b", " ">> }

BlankLines == { <<>>, <<" ", " ">> }

CommandLines ==
    { wQuit, wExit, wQ, <<"/", "Q">>, <<" ", "/", "q">>,
      wHelp, wH, wModels,
      wModel, wModel \o Sp \o m1, wModel \o Sp \o M2 \o Sp,
      <<"/", "M", "O", "D", "E", "L">> \o Sp \o Sp \o m1,
      wModel \o Sp \o <<"z", "z">>, wModel \o Sp \o M1,
      wSave, wSave \o Sp \o <<"t">>, wSave \o Sp \o <<"T">>,
      wLoad, wLoad \o Sp \o <<"t">>, wLoad \o Sp \o <<"T">>,
      wLoad \o Sp \o pGarbage, wLoad \o Sp \o pList, wLoad \o Sp \o pNoConv,
      wLoad \o Sp \o pIntConv, wLoad \o Sp \o pStrConv, wLoad \o Sp \o pOld,
      wClear, wStats, wStream, wHistory,
      <<"/", "f", "o", "o">>, <<"/">>, wModels \o Sp \o m1 }

InputLines == PromptLines \cup BlankLines \cup CommandLines

\* What a GET /api/tags meets: status 0 is a RequestException (unreachable,
\* timeout), otherwise the HTTP status and the names in the body.
TagsAnswers ==
    { [status |-> 0, names |-> <<>>], [status |-> 500, names |-> <<>>],
      [status |-> 200, names |-> <<>>], [status |-> 200, names |-> <<m1>>],
      [status |-> 200, names |-> <<m1, M2>>], [status |-> 200, names |-> <<M2, m1>>] }

\* The body of a complete /api/generate answer.
RespJson(text) == JsonDump(PyDict(<<"response">>, <<PyStr(text)>>))

\* What a complete POST /api/generate meets: status 0 is a RequestException
\* that is no timeout, -1 a timeout.
CompleteAnswers ==
    { [status |-> 0, body |-> <<>>], [status |-> -1, body |-> <<>>],
      [status |-> 500, body |-> <<>>],
      [status |-> 200, body |-> RespJson(<<"o", "k">>)],
      [status |-> 200, body |-> RespJson(<<>>)],
      [status |-> 200, body |-> JsonDump(PyDict(<<"done">>, <<PyBool(TRUE)>>))] }

\* The lines of a streamed answer.
FragLine(text) == RespJson(text)
DoneLine == JsonDump(PyDict(<<"done">>, <<PyBool(TRUE)>>))
LastLine(text) == JsonDump(PyDict(<<"response", "done">>, <<PyStr(text), PyBool(TRUE)>>))
NotDoneLine(text) == JsonDump(PyDict(<<"response", "done">>, <<PyStr(text), PyBool(FALSE)>>))
KeepAliveLine == JsonDump(PyDict(<<>>, <<>>))
GarbageLine == << <<"{">>, <<"r", "e", "s">> >>
EmptyLine == <<>>
NumberLine == << <<"5">> >>

\* What a streaming POST /api/generate meets: the status as above, the lines
\* iter_lines() yields, and whether the connection drops after them.
StreamAnswers ==
    { [status |-> 0, lines |-> <<>>, drops |-> FALSE],
      [status |-> 500, lines |-> <<>>, drops |-> FALSE],
      [status |-> 200, drops |-> FALSE,
       lines |-> <<FragLine(<<"H", "e">>), NotDoneLine(<<"l", "l", "o">>), DoneLine>>],
      [status |-> 200, drops |-> FALSE,
       lines |-> <<FragLine(<<"H", "e">>), GarbageLine, EmptyLine, KeepAliveLine,
                   LastLine(<<"l", "l", "o">>), FragLine(<<"x">>)>>],
      [status |-> 200, drops |-> FALSE, lines |-> <<FragLine(<<"H", "e">>)>>],
      [status |-> 200, drops |-> TRUE, lines |-> <<FragLine(<<"H", "e">>)>>],
      [status |-> 200, drops |-> FALSE,
       lines |-> <<FragLine(<<"H", "e">>), NumberLine, DoneLine>>] }

\* A file: whether it exists and can be read, and the tokens of its text.
NoFile == [exists |-> FALSE, text |-> <<>>]
FileOf(text) == [exists |-> TRUE, text |-> text]

\* One message of the log.
Message(role, content, t) ==
    PyDict(<<"role", "content", "timestamp">>,
           <<PyStr(<<role>>), PyStr(content), PyStr(IsoFormat(t))>>)

\* A transcript some earlier session wrote, with another model, where the
\* clock (a naive local time) was ahead of this session's.
OldTranscript ==
    PyDict(<<"session_start", "model", "host", "conversation">>,
           <<PyStr(IsoFormat(1)), PyStr(<<"z", "z">>), PyStr(<<"h">>),
             PyList(<<Message("user", <<"o", "l", "d">>, 1)>>)>>)

\* The files that lie on the disk when the session starts: one that is no
\* JSON text, one whose value is no record, a record with no conversation, a
\* record whose conversation is a number, one whose conversation is a
\* string, and a transcript; no file at the other paths.
ExternalFiles ==
    [p \in Paths |->
        CASE p = pGarbage -> FileOf(GarbageLine)
          [] p = pList -> FileOf(JsonDump(PyList(<<>>)))
          [] p = pNoConv -> FileOf(JsonDump(PyDict(<<"model">>, <<PyStr(m1)>>)))
          [] p = pIntConv -> FileOf(JsonDump(PyDict(<<"conversation">>, <<PyInt(<<"5">>)>>)))
          [] p = pStrConv ->
                FileOf(JsonDump(PyDict(<<"conversation">>, <<PyStr(<<"a", "b">>)>>)))
          [] p = pOld -> FileOf(JsonDump(OldTranscript))
          [] OTHER -> NoFile]

\* ------------------------------------------------------------------
\* State
\* ------------------------------------------------------------------

VARIABLES
    prog,                  \* which program runs: "gemma" or "phi"
    pc,                    \* where the controller is
    model,                 \* self.model
    conversation_history,  \* self.conversation_history, a Python value
    streaming_mode,        \* the local streaming_mode / streaming
    clock,                 \* the last instant datetime.now() returned
    files,                 \* the file system: path -> file
    saved,                 \* per path, the log the last save wrote there in full
    sent,                  \* the /api/generate payloads posted by the last step
    error_rendered,        \* whether the last step rendered a message in the error color
    loaded,                \* the count the last step's load reported, -1 if it reported none
    printed,               \* the fragments the last step's stream printed
    branch,                \* the branch of run_interactive the last step took
    did,                   \* what else the last step did: "tags" (asked the service for
                           \* its models), "offer" (asked whether to save)
    rendered,              \* the entries the last step's show_history rendered
    wire                   \* the chunks a streaming connection delivers to the decoder

vars == <<prog, pc, model, conversation_history, streaming_mode, clock, files,
          saved, sent, error_rendered, loaded, printed, branch, did, rendered, wire>>

NotSaved == [valid |-> FALSE, log |-> PyNone]

Init ==
    /\ prog \in Progs
    /\ pc = "Start"
    /\ model \in ConfiguredModels(prog)
    /\ conversation_history = PyList(<<>>)
    /\ streaming_mode = FALSE
    /\ clock = 0
    /\ files = ExternalFiles
    /\ saved = [p \in Paths |-> NotSaved]
    /\ sent = <<>>
    /\ error_rendered = FALSE
    /\ loaded = -1
    /\ printed = <<>>
    /\ branch = "init"
    /\ did = {}
    /\ rendered = <<>>
    /\ wire = <<>>

\* ------------------------------------------------------------------
\* Service client
\* ------------------------------------------------------------------

InList(x, seq) == \E i \in 1..Len(seq) : seq[i] = x

\* The probe as it would be if any answer of the service counted, whatever
\* its status.
check_connection_AnyAnswer(ans) == ans.status # 0

check_connection(ans) == ans.status = 200

get_available_models(ans) == IF ans.status = 200 THEN ans.names ELSE <<>>


\* The payload as it would be if the last message of the log went before
\* the prompt.
Payload_WithContext(m, prompt, stream) ==
    LET items == conversation_history.items
        context == IF items # <<>> /\ items[Len(items)].t = "dict"
                   THEN DictGet(items[Len(items)], "content", PyStr(<<>>)).s
                   ELSE <<>>
    IN PyDict(<<"model", "prompt", "stream">>,
              <<PyStr(m), PyStr(context \o prompt), PyBool(stream)>>)

\* The payload of a generate call.
Payload(m, prompt, stream) ==
    PyDict(<<"model", "prompt", "stream">>, <<PyStr(m), PyStr(prompt), PyBool(stream)>>)

\* send_message as it would be if it returned the text of its error message
\* instead of None.
send_message_ErrorText(ans) ==
    IF ans.status = 200
    THEN [value |-> DictGet(JsonLoad(ans.body).val, "response", PyStr(<<>>)),
          colors |-> {}]
    ELSE [value |-> PyStr(<<"E", "r", "r", "o", "r">>), colors |-> {"error"}]

\* send_message: the text of the answer, or None after an error message.
send_message(ans) ==
    IF ans.status = 200
    THEN [value |-> DictGet(JsonLoad(ans.body).val, "response", PyStr(<<>>)),
          colors |-> {}]
    ELSE [value |-> PyNone, colors |-> {"error"}]

\* Whether the program's print helper takes the keyword end (cprint does,
\* print_colored does not: calling it with end='' raises TypeError).
print_accepts_end(p) == p = "phi"

\* The loop over iter_lines() as it would be without its break on a done
\* record.
RECURSIVE StreamLoop_NoBreak(_, _, _)
StreamLoop_NoBreak(lines, i, out) ==
    IF i > Len(lines) THEN [out |-> out, end |-> "eof"]
    ELSE IF lines[i] = <<>> THEN StreamLoop_NoBreak(lines, i + 1, out)
    ELSE LET r == JsonLoad(lines[i]) IN
         IF ~r.ok THEN StreamLoop_NoBreak(lines, i + 1, out)
         ELSE IF r.val.t # "dict" THEN [out |-> out, end |-> "raise"]
         ELSE StreamLoop_NoBreak(lines, i + 1,
                  IF HasKey(r.val, "response")
                  THEN Append(out, DictGet(r.val, "response", PyNone).s)
                  ELSE out)

\* The loop over iter_lines(): the fragments printed and how the loop ended
\* ("done": break on a done record, "eof": no line left, "raise": an
\* exception that is no JSONDecodeError).
RECURSIVE StreamLoop(_, _, _)
StreamLoop(lines, i, out) ==
    IF i > Len(lines) THEN [out |-> out, end |-> "eof"]
    ELSE IF lines[i] = <<>> THEN StreamLoop(lines, i + 1, out)
    ELSE LET r == JsonLoad(lines[i]) IN
         IF ~r.ok THEN StreamLoop(lines, i + 1, out)
         ELSE IF r.val.t # "dict" THEN [out |-> out, end |-> "raise"]
         ELSE LET out2 == IF HasKey(r.val, "response")
                          THEN Append(out, DictGet(r.val, "response", PyNone).s)
                          ELSE out
              IN IF Truthy(DictGet(r.val, "done", PyBool(FALSE)))
                 THEN [out |-> out2, end |-> "done"]
                 ELSE StreamLoop(lines, i + 1, out2)

\* The end of a line on the wire. The units of the wire are the tokens of
\* the JSON texts and this one.
NL == <<"\n">>

\* bytes.splitlines(): the lines of a chunk, without their ends; a chunk
\* that ends with a line end has no empty last line.
RECURSIVE SplitLinesFrom(_, _, _, _)
SplitLinesFrom(chunk, i, cur, acc) ==
    IF i > Len(chunk) THEN (IF cur = <<>> THEN acc ELSE Append(acc, cur))
    ELSE IF chunk[i] = NL THEN SplitLinesFrom(chunk, i + 1, <<>>, Append(acc, cur))
    ELSE SplitLinesFrom(chunk, i + 1, Append(cur, chunk[i]), acc)

SplitLines(chunk) == SplitLinesFrom(chunk, 1, <<>>, <<>>)

\* iter_lines() as it would be if it split every chunk on its own, keeping
\* no unfinished line for the next chunk.
RECURSIVE IterLinesFrom_NoPending(_, _, _, _)
IterLinesFrom_NoPending(chunks, k, pending, out) ==
    IF k > Len(chunks) THEN out
    ELSE IterLinesFrom_NoPending(chunks, k + 1, pending, out \o SplitLines(chunks[k]))

\* requests' Response.iter_lines(): the lines of the chunks that arrive; a
\* last line that its chunk does not end is kept back (pending) and put in
\* front of the next chunk, and yielded at the end of the stream.
RECURSIVE IterLinesFrom(_, _, _, _)
IterLinesFrom(chunks, k, pending, out) ==
    IF k > Len(chunks)
    THEN (IF pending.has THEN Append(out, pending.line) ELSE out)
    ELSE LET chunk == (IF pending.has THEN pending.line ELSE <<>>) \o chunks[k]
             lines == SplitLines(chunk)
         IN IF /\ lines # <<>>
               /\ lines[Len(lines)] # <<>>
               /\ chunk # <<>>
               /\ lines[Len(lines)][Len(lines[Len(lines)])] = chunk[Len(chunk)]
            THEN IterLinesFrom(chunks, k + 1,
                     [has |-> TRUE, line |-> lines[Len(lines)]],
                     out \o SubSeq(lines, 1, Len(lines) - 1))
            ELSE IterLinesFrom(chunks, k + 1, [has |-> FALSE, line |-> <<>>],
                     out \o lines)

iter_lines(chunks) == IterLinesFrom(chunks, 1, [has |-> FALSE, line |-> <<>>], <<>>)

\* stream_message: what it printed, the colors it rendered, and whether an
\* exception left it.
stream_message(p, ans) ==
    IF ans.status # 200
    THEN [printed |-> <<>>, colors |-> {"error"}, raised |-> FALSE]
    ELSE IF ~print_accepts_end(p)
    THEN [printed |-> <<>>, colors |-> {}, raised |-> TRUE]
    ELSE LET run == StreamLoop(ans.lines, 1, <<>>) IN
         IF run.end = "raise"
         THEN [printed |-> run.out, colors |-> {"model"}, raised |-> TRUE]
         ELSE IF run.end = "eof" /\ ans.drops
         THEN [printed |-> run.out, colors |-> {"model", "error"}, raised |-> FALSE]
         ELSE [printed |-> run.out, colors |-> {"model"}, raised |-> FALSE]

\* ------------------------------------------------------------------
\* Conversation store
\* ------------------------------------------------------------------

\* The document save writes.
Transcript(m, history) ==
    PyDict(<<"session_start", "model", "host", "conversation">>,
           <<PyStr(SessionStart), PyStr(m), PyStr(Host), history>>)

\* What happens to a save: it goes through, open() fails, or the write
\* stops half way.
SaveOutcomes == {"ok", "open_fails", "write_fails"}

\* The name save writes to: the one given, else the default one.
SaveFilename(p, filename) == IF filename = <<>> THEN DefaultFilename(p) ELSE filename

\* save_conversation as it would be if it left the last message of the log
\* out of the document.
save_conversation_DropsLast(m, history, outcome, old) ==
    LET kept == IF history.t = "list" /\ history.items # <<>>
                THEN PyList(SubSeq(history.items, 1, Len(history.items) - 1))
                ELSE history
        text == JsonDump(Transcript(m, kept))
    IN CASE outcome = "ok" -> FileOf(text)
         [] outcome = "open_fails" -> old
         [] outcome = "write_fails" -> FileOf(SubSeq(text, 1, Len(text) \div 2))

\* save_conversation: the file written.
save_conversation(m, history, outcome, old) ==
    LET text == JsonDump(Transcript(m, history)) IN
    CASE outcome = "ok" -> FileOf(text)
      [] outcome = "open_fails" -> old
      [] outcome = "write_fails" -> FileOf(SubSeq(text, 1, Len(text) \div 2))

\* load_conversation: the log after it, and whether it reported success.
load_conversation(file, history) ==
    IF ~file.exists THEN [history |-> history, ok |-> FALSE]
    ELSE LET r == JsonLoad(file.text) IN
         IF ~r.ok \/ r.val.t # "dict" THEN [history |-> history, ok |-> FALSE]
         ELSE LET conv == DictGet(r.val, "conversation", PyList(<<>>)) IN
              [history |-> conv, ok |-> HasLen(conv)]

\* Whether v is a message show_history can render.
Renderable(v) ==
    /\ v.t = "dict"
    /\ HasKey(v, "role")
    /\ HasKey(v, "content")
    /\ DictGet(v, "content", PyNone).t = "str"

\* Whether show_history runs through without an exception.
show_history_ok(history) ==
    \/ ~Truthy(history)
    \/ /\ history.t = "list"
       /\ \A i \in 1..Len(history.items) : Renderable(history.items[i])

\* How many characters of a content show_history keeps, and what it puts
\* after a content it cut.
PreviewLength(p) == IF p = "gemma" THEN 100 ELSE 80

Ellipsis == <<".", ".", ".">>

\* The preview as it would be if show_history printed the whole content.
Preview_Whole(p, content) == content

\* The preview of one content: gemma's msg['content'][:100] + "..." (else
\* the content), phi's msg['content'][:80] + ('...' or '').
Preview(p, content) ==
    IF Len(content) > PreviewLength(p)
    THEN SubSeq(content, 1, PreviewLength(p)) \o Ellipsis
    ELSE content

\* The entries show_history prints, each with its number, role and preview,
\* up to the first entry it cannot render (on which it raises).
RECURSIVE RenderFrom(_, _, _, _)
RenderFrom(p, items, i, out) ==
    IF i > Len(items) \/ ~Renderable(items[i]) THEN out
    ELSE RenderFrom(p, items, i + 1,
             Append(out, [number |-> i,
                          role |-> DictGet(items[i], "role", PyNone).s,
                          preview |-> Preview(p, DictGet(items[i], "content", PyNone).s)]))

show_history(p, history) ==
    IF ~Truthy(history) \/ history.t # "list" THEN <<>>
    ELSE RenderFrom(p, history.items, 1, <<>>)

\* Whether show_stats runs through without an exception.
show_stats_ok(history) == HasLen(history)

\* ------------------------------------------------------------------
\* Command dispatcher
\* ------------------------------------------------------------------

\* The words of a command line: gemma lowers the whole line before it
\* splits it, phi splits the line and lowers the first word only.
Command(p, user_input) ==
    IF p = "gemma"
    THEN Split(Lower(user_input))
    ELSE LET parts == Split(user_input) IN <<Lower(parts[1])>> \o Tail(parts)

\* The if/elif chain as it would be without its last else: a line that
\* starts with "/" and names no command falls through to the prompt turn.
Branch_FallsThrough(p, user_input) ==
    IF user_input = <<>> THEN "empty"
    ELSE IF ~StartsWith(user_input, "/") THEN "prompt"
    ELSE LET command == Command(p, user_input) IN
         CASE command[1] \in {wQuit, wExit, wQ} -> "quit"
           [] command[1] \in {wHelp, wH} -> "help"
           [] command[1] = wModels -> "models"
           [] command[1] = wModel /\ Len(command) > 1 -> "model"
           [] command[1] = wSave -> "save"
           [] command[1] = wLoad /\ Len(command) > 1 -> "load"
           [] command[1] = wClear -> "clear"
           [] command[1] = wStats -> "stats"
           [] command[1] = wStream -> "stream"
           [] command[1] = wHistory -> "history"
           [] OTHER -> "prompt"

\* The branch of the if/elif chain a stripped line takes.
Branch(p, user_input) ==
    IF user_input = <<>> THEN "empty"
    ELSE IF ~StartsWith(user_input, "/") THEN "prompt"
    ELSE LET command == Command(p, user_input) IN
         CASE command[1] \in {wQuit, wExit, wQ} -> "quit"
           [] command[1] \in {wHelp, wH} -> "help"
           [] command[1] = wModels -> "models"
           [] command[1] = wModel /\ Len(command) > 1 -> "model"
           [] command[1] = wSave -> "save"
           [] command[1] = wLoad /\ Len(command) > 1 -> "load"
           [] command[1] = wClear -> "clear"
           [] command[1] = wStats -> "stats"
           [] command[1] = wStream -> "stream"
           [] command[1] = wHistory -> "history"
           [] OTHER -> "unknown"

\* The second word of a command line, <<>> when there is none.
Argument(p, user_input) ==
    LET command == Command(p, user_input) IN
    IF Len(command) > 1 THEN command[2] ELSE <<>>

\* What the loop makes of each line, worked out once per program and line:
\* the stripped line, the branch it takes and its argument.
Dispatch ==
    [p \in Progs |-> [raw \in InputLines |->
        [user_input |-> Strip(raw),
         branch |-> Branch(p, Strip(raw)),
         argument |-> IF Branch(p, Strip(raw)) \in {"empty", "prompt"}
                      THEN <<>> ELSE Argument(p, Strip(raw))]]]

\* ------------------------------------------------------------------
\* Session controller
\* ------------------------------------------------------------------

\* Where an exception that nothing in the loop catches leaves the
\* controller: gemma's "except Exception" around the loop reports it and
\* goes on to the save offer, phi's run() lets it end the process.
AfterException(p) == IF p = "gemma" THEN "Terminating" ELSE "Crashed"

ExceptionColors(p) == IF p = "gemma" THEN {"error"} ELSE {}

\* A step that posts no generate request and loads no file.
Quiet == sent' = <<>> /\ loaded' = -1 /\ printed' = <<>>

\* A step that does these things besides, renders no history and reads
\* nothing from a streaming connection of its own.
Does(what) == did' = what /\ rendered' = <<>> /\ wire' = wire

\* A step that asks neither for the models nor whether to save.
Plain == Does({})

\* The step renders messages in these colors.
Renders(colors) == error_rendered' = ("error" \in colors)

\* The startup check as it would be if it took the last listed model.
StartupModel_Last(m, models) ==
    IF models # <<>> /\ ~InList(m, models) THEN models[Len(models)] ELSE m

\* The model in use after the startup check of the list of models.
StartupModel(m, models) ==
    IF models # <<>> /\ ~InList(m, models) THEN models[1] ELSE m

\* run_interactive up to the loop: the probe, the model check, the banner.
Startup(probe, tags) ==
    /\ pc = "Start"
    /\ branch' = "startup"
    /\ IF ~check_connection(probe)
       THEN /\ pc' = "Exited"
            /\ Renders({"system", "error"})
            /\ UNCHANGED model
       ELSE LET models == get_available_models(tags) IN
            /\ pc' = "AwaitingInput"
            /\ model' = StartupModel(model, models)
            /\ Renders({"system", "info"} \cup
                   (IF models = <<>> /\ prog = "gemma" THEN {"error"} ELSE {}) \cup
                   (IF models # <<>> /\ ~InList(model, models) THEN {"error"} ELSE {}))
    /\ streaming_mode' = FALSE
    /\ Quiet
    /\ Does(IF check_connection(probe) THEN {"tags"} ELSE {})
    /\ UNCHANGED <<prog, conversation_history, clock, files, saved>>

\* The guard of every step of the loop that reads the line raw.
Reads(raw, b) ==
    /\ pc = "AwaitingInput"
    /\ Dispatch[prog][raw].branch = b
    /\ branch' = b

\* KeyboardInterrupt while input() waits.
Interrupt ==
    /\ pc = "AwaitingInput"
    /\ branch' = "interrupt"
    /\ pc' = "Terminating"
    /\ Renders({"system"})
    /\ Quiet
    /\ Plain
    /\ UNCHANGED <<prog, model, conversation_history, streaming_mode, clock, files,
                   saved>>

\* An empty line: the loop asks again.
ReadEmpty(raw) ==
    /\ Reads(raw, "empty")
    /\ Renders({})
    /\ Quiet
    /\ Plain
    /\ UNCHANGED <<prog, pc, model, conversation_history, streaming_mode, clock,
                   files, saved>>

\* /quit, /exit, /q
CmdQuit(raw) ==
    /\ Reads(raw, "quit")
    /\ pc' = "Terminating"
    /\ Renders({"system"})
    /\ Quiet
    /\ Plain
    /\ UNCHANGED <<prog, model, conversation_history, streaming_mode, clock, files,
                   saved>>

\* /help, /h
CmdHelp(raw) ==
    /\ Reads(raw, "help")
    /\ Renders({"info"})
    /\ Quiet
    /\ Plain
    /\ UNCHANGED <<prog, pc, model, conversation_history, streaming_mode, clock,
                   files, saved>>

\* /models
CmdModels(raw, tags) ==
    /\ Reads(raw, "models")
    /\ Renders(IF get_available_models(tags) # <<>> \/ prog = "phi"
               THEN {"info"} ELSE {"error"})
    /\ Quiet
    /\ Does({"tags"})
    /\ UNCHANGED <<prog, pc, model, conversation_history, streaming_mode, clock,
                   files, saved>>

\* /model <name>
CmdModel(raw, tags) ==
    /\ Reads(raw, "model")
    /\ LET new_model == Dispatch[prog][raw].argument IN
       IF InList(new_model, get_available_models(tags))
       THEN model' = new_model /\ Renders({"info"})
       ELSE model' = model /\ Renders({"error"})
    /\ Quiet
    /\ Does({"tags"})
    /\ UNCHANGED <<prog, pc, conversation_history, streaming_mode, clock, files,
                   saved>>

\* The effect of one save on the files (and on the record of what was saved).
Saves(filename, outcome) ==
    LET path == SaveFilename(prog, filename) IN
    /\ files' = [files EXCEPT ![path] =
                    save_conversation(model, conversation_history, outcome, @)]
    /\ saved' = [saved EXCEPT ![path] =
                    CASE outcome = "ok" -> [valid |-> TRUE, log |-> conversation_history]
                      [] outcome = "open_fails" -> @
                      [] outcome = "write_fails" -> NotSaved]
    /\ Renders(IF outcome = "ok" THEN {"info"} ELSE {"error"})

\* /save [filename]
CmdSave(raw, outcome) ==
    /\ Reads(raw, "save")
    /\ Saves(Dispatch[prog][raw].argument, outcome)
    /\ Quiet
    /\ Plain
    /\ UNCHANGED <<prog, pc, model, conversation_history, streaming_mode, clock>>

\* /load <filename>
CmdLoad(raw) ==
    /\ Reads(raw, "load")
    /\ LET got == load_conversation(files[Dispatch[prog][raw].argument],
                                    conversation_history) IN
       /\ conversation_history' = got.history
       /\ Renders(IF got.ok THEN {"info"} ELSE {"error"})
       /\ loaded' = IF got.ok THEN PyLen(got.history) ELSE -1
    /\ sent' = <<>>
    /\ printed' = <<>>
    /\ Plain
    /\ UNCHANGED <<prog, pc, model, streaming_mode, clock, files, saved>>

\* /clear as it would be if it kept the last message of the log.
CmdClear_KeepsLast(raw) ==
    /\ Reads(raw, "clear")
    /\ conversation_history' =
           IF conversation_history.items = <<>> THEN PyList(<<>>)
           ELSE PyList(<<conversation_history.items[Len(conversation_history.items)]>>)
    /\ Renders({"info"})
    /\ Quiet
    /\ Plain
    /\ UNCHANGED <<prog, pc, model, streaming_mode, clock, files, saved>>

\* /clear
CmdClear(raw) ==
    /\ Reads(raw, "clear")
    /\ conversation_history' = PyList(<<>>)
    /\ Renders({"info"})
    /\ Quiet
    /\ Plain
    /\ UNCHANGED <<prog, pc, model, streaming_mode, clock, files, saved>>

\* /stats
CmdStats(raw) ==
    /\ Reads(raw, "stats")
    /\ IF show_stats_ok(conversation_history)
       THEN pc' = pc /\ Renders({"info"})
       ELSE pc' = AfterException(prog) /\ Renders(ExceptionColors(prog))
    /\ Quiet
    /\ Plain
    /\ UNCHANGED <<prog, model, conversation_history, streaming_mode, clock, files,
                   saved>>

\* /stream as it would be if it switched streaming on instead of toggling.
CmdStream_SetsOn(raw) ==
    /\ Reads(raw, "stream")
    /\ streaming_mode' = TRUE
    /\ Renders({"info"})
    /\ Quiet
    /\ Plain
    /\ UNCHANGED <<prog, pc, model, conversation_history, clock, files, saved>>

\* /stream
CmdStream(raw) ==
    /\ Reads(raw, "stream")
    /\ streaming_mode' = ~streaming_mode
    /\ Renders({"info"})
    /\ Quiet
    /\ Plain
    /\ UNCHANGED <<prog, pc, model, conversation_history, clock, files, saved>>

\* /history
CmdHistory(raw) ==
    /\ Reads(raw, "history")
    /\ IF show_history_ok(conversation_history)
       THEN /\ pc' = pc
            /\ Renders(IF Truthy(conversation_history)
                       THEN {"system", "user", "model"} ELSE {"info"})
       ELSE pc' = AfterException(prog) /\ Renders({"system"} \cup ExceptionColors(prog))
    /\ Quiet
    /\ did' = {}
    /\ rendered' = show_history(prog, conversation_history)
    /\ wire' = wire
    /\ UNCHANGED <<prog, model, conversation_history, streaming_mode, clock, files,
                   saved>>

\* Any other line that starts with "/".
CmdUnknown(raw) ==
    /\ Reads(raw, "unknown")
    /\ Renders(IF prog = "gemma" THEN {"error", "info"} ELSE {"error"})
    /\ Quiet
    /\ Plain
    /\ UNCHANGED <<prog, pc, model, conversation_history, streaming_mode, clock,
                   files, saved>>

\* The log as it would be with the new message put in front (insert(0, ...)).
Appended_AtFront(history, role, content, t) ==
    PyList(<<Message(role, content, t)>> \o history.items)

\* The log with one more message at its end (list.append).
Appended(history, role, content, t) ==
    PyList(Append(history.items, Message(role, content, t)))

\* A prompt typed while the log is no list: append raises AttributeError.
PromptNoList(raw) ==
    /\ Reads(raw, "prompt")
    /\ conversation_history.t # "list"
    /\ pc' = AfterException(prog)
    /\ Renders(ExceptionColors(prog))
    /\ Quiet
    /\ Plain
    /\ UNCHANGED <<prog, model, conversation_history, streaming_mode, clock, files,
                   saved>>

\* A prompt turn in complete mode.
PromptComplete(raw, t1, t2, ans) ==
    /\ Reads(raw, "prompt")
    /\ ~streaming_mode
    /\ conversation_history.t = "list"
    /\ Len(conversation_history.items) < MaxLog
    /\ clock <= t1 /\ t1 <= t2
    /\ LET user_input == Dispatch[prog][raw].user_input
           asked == Appended(conversation_history, "user", user_input, t1)
           response == send_message(ans)
       IN /\ sent' = <<Payload(model, user_input, FALSE)>>
          /\ IF Truthy(response.value)
             THEN /\ conversation_history' =
                         Appended(asked, "assistant", response.value.s, t2)
                  /\ clock' = t2
                  /\ Renders({"system", "model"})
             ELSE /\ t2 = t1
                  /\ conversation_history' = asked
                  /\ clock' = t1
                  /\ Renders({"system", "error"})
    /\ loaded' = -1
    /\ Plain
    /\ printed' = <<>>
    /\ UNCHANGED <<prog, pc, model, streaming_mode, files, saved>>

\* The strings of a sequence put one after the other.
RECURSIVE Concat(_)
Concat(strings) ==
    IF strings = <<>> THEN <<>> ELSE Head(strings) \o Concat(Tail(strings))

\* The streaming turn as it would be if it kept what it printed: after a
\* stream that printed something, an assistant message with that text.
PromptStream_Recording(raw, t1, ans) ==
    /\ Reads(raw, "prompt")
    /\ streaming_mode
    /\ conversation_history.t = "list"
    /\ Len(conversation_history.items) < MaxLog
    /\ clock <= t1
    /\ LET user_input == Dispatch[prog][raw].user_input
           got == stream_message(prog, ans)
           asked == Appended(conversation_history, "user", user_input, t1)
           text == Concat(got.printed)
       IN /\ conversation_history' =
                 IF text # <<>> /\ ~got.raised
                 THEN Appended(asked, "assistant", text, t1)
                 ELSE asked
          /\ clock' = t1
          /\ sent' = <<Payload(model, user_input, TRUE)>>
          /\ printed' = got.printed
          /\ IF got.raised
             THEN /\ pc' = AfterException(prog)
                  /\ Renders({"system"} \cup got.colors \cup ExceptionColors(prog))
             ELSE /\ pc' = pc
                  /\ Renders({"system"} \cup got.colors)
    /\ loaded' = -1
    /\ Plain
    /\ UNCHANGED <<prog, model, streaming_mode, files, saved>>

\* A prompt turn in streaming mode.
PromptStream(raw, t1, ans) ==
    /\ Reads(raw, "prompt")
    /\ streaming_mode
    /\ conversation_history.t = "list"
    /\ Len(conversation_history.items) < MaxLog
    /\ clock <= t1
    /\ LET user_input == Dispatch[prog][raw].user_input
           got == stream_message(prog, ans)
       IN /\ conversation_history' =
                 Appended(conversation_history, "user", user_input, t1)
          /\ clock' = t1
          /\ sent' = <<Payload(model, user_input, TRUE)>>
          /\ printed' = got.printed
          /\ IF got.raised
             THEN /\ pc' = AfterException(prog)
                  /\ Renders({"system"} \cup got.colors \cup ExceptionColors(prog))
             ELSE /\ pc' = pc
                  /\ Renders({"system"} \cup got.colors)
    /\ loaded' = -1
    /\ Plain
    /\ UNCHANGED <<prog, model, streaming_mode, files, saved>>

\* Where the program is after a KeyboardInterrupt raised inside the loop
\* body: phi catches it around the loop and goes on to the save offer,
\* gemma catches it around input() only (and Exception, which it is not,
\* around the loop), so that it leaves run_interactive and ends the process.
AfterInterrupt(p) == IF p = "gemma" THEN "Crashed" ELSE "Terminating"

\* A prompt turn during which the user interrupts: the user message is in
\* the log, the request is posted, and KeyboardInterrupt is raised while
\* requests.post waits for the answer.
PromptInterrupted(raw, t1) ==
    /\ Reads(raw, "prompt")
    /\ conversation_history.t = "list"
    /\ Len(conversation_history.items) < MaxLog
    /\ clock <= t1
    /\ LET user_input == Dispatch[prog][raw].user_input
       IN /\ conversation_history' =
                 Appended(conversation_history, "user", user_input, t1)
          /\ sent' = <<Payload(model, user_input, streaming_mode)>>
    /\ clock' = t1
    /\ pc' = AfterInterrupt(prog)
    /\ Renders({"system"})
    /\ loaded' = -1
    /\ printed' = <<>>
    /\ Does({"interrupted"})
    /\ UNCHANGED <<prog, model, streaming_mode, files, saved>>

\* The answers to "Save conversation? (y/N)".
SaveAnswers == { <<"Y">>, <<"y", "e", "s">>, <<"n">>, <<>> }

\* The end of the program as it would be without the test of the log
\* before the save offer.
Terminate_AlwaysOffers(answer, outcome) ==
    /\ pc = "Terminating"
    /\ branch' = "exit"
    /\ pc' = "Exited"
    /\ IF Lower(Strip(answer)) \in {<<"y">>, <<"y", "e", "s">>}
       THEN Saves(<<>>, outcome)
       ELSE /\ outcome = "ok"
            /\ Renders({})
            /\ UNCHANGED <<files, saved>>
    /\ Quiet
    /\ Does({"offer"})
    /\ UNCHANGED <<prog, model, conversation_history, streaming_mode, clock>>

\* After the loop: the save offer, then the end of the program.
Terminate(answer, outcome) ==
    /\ pc = "Terminating"
    /\ branch' = "exit"
    /\ pc' = "Exited"
    /\ IF Truthy(conversation_history) /\ Lower(Strip(answer)) \in {<<"y">>, <<"y", "e", "s">>}
       THEN Saves(<<>>, outcome)
       ELSE /\ outcome = "ok"
            /\ Renders({})
            /\ UNCHANGED <<files, saved>>
    /\ Quiet
    /\ Does(IF Truthy(conversation_history) THEN {"offer"} ELSE {})
    /\ UNCHANGED <<prog, model, conversation_history, streaming_mode, clock>>

Instants == 0..MaxClock

\* One pass of the loop body on the line raw.
Turn(raw) ==
    \/ ReadEmpty(raw)
    \/ CmdQuit(raw)
    \/ CmdHelp(raw)
    \/ \E tags \in TagsAnswers : CmdModels(raw, tags)
    \/ \E tags \in TagsAnswers : CmdModel(raw, tags)
    \/ CmdSave(raw, "open_fails")
    \/ CmdLoad(raw)
    \/ CmdClear(raw)
    \/ CmdStats(raw)
    \/ CmdStream(raw)
    \/ CmdHistory(raw)
    \/ CmdUnknown(raw)
    \/ /\ Dispatch[prog][raw].branch = "prompt"
       /\ \/ PromptNoList(raw)
          \/ \E t1 \in Instants, t2 \in Instants, ans \in CompleteAnswers :
                 PromptComplete(raw, t1, t2, ans)
          \/ \E t1 \in Instants, ans \in StreamAnswers : PromptStream(raw, t1, ans)
          \/ \E t1 \in Instants : PromptInterrupted(raw, t1)

\* The session: in its loop no save finds a directory it can write to (the
\* saves that go through are those of SpecStore and of the save offer).
Next ==
    \/ \E probe \in TagsAnswers, tags \in TagsAnswers : Startup(probe, tags)
    \/ Interrupt
    \/ \E raw \in InputLines : Turn(raw)
    \/ \E answer \in SaveAnswers, outcome \in SaveOutcomes : Terminate(answer, outcome)

Spec == Init /\ [][Next]_vars

\* ------------------------------------------------------------------
\* The session in which no file is loaded: the log is then always a list
\* (the prompt on a log that is no list does not occur).
\* ------------------------------------------------------------------

\* One pass of the loop body on a line that is no load command.
TurnNoLoad(raw) ==
    \/ ReadEmpty(raw)
    \/ CmdQuit(raw)
    \/ CmdHelp(raw)
    \/ \E tags \in TagsAnswers : CmdModels(raw, tags)
    \/ \E tags \in TagsAnswers : CmdModel(raw, tags)
    \/ CmdSave(raw, "open_fails")
    \/ CmdClear(raw)
    \/ CmdStats(raw)
    \/ CmdStream(raw)
    \/ CmdHistory(raw)
    \/ CmdUnknown(raw)
    \/ /\ Dispatch[prog][raw].branch = "prompt"
       /\ \/ \E t1 \in Instants, t2 \in Instants, ans \in CompleteAnswers :
                 PromptComplete(raw, t1, t2, ans)
          \/ \E t1 \in Instants, ans \in StreamAnswers : PromptStream(raw, t1, ans)
          \/ \E t1 \in Instants : PromptInterrupted(raw, t1)

NextNoLoad ==
    \/ \E probe \in TagsAnswers, tags \in TagsAnswers : Startup(probe, tags)
    \/ Interrupt
    \/ \E raw \in InputLines : TurnNoLoad(raw)
    \/ \E answer \in SaveAnswers, outcome \in SaveOutcomes : Terminate(answer, outcome)

SpecNoLoad == Init /\ [][NextNoLoad]_vars

\* ------------------------------------------------------------------
\* The conversation store on its own: save, load and clear applied to the
\* logs that appends build, on a disk that can be written
\* ------------------------------------------------------------------

\* The messages of the logs the store is tried on.
StoreMessages ==
    { Message(role, content, t) :
        role \in {"user", "assistant"}, content \in {<<"h", "i">>}, t \in Instants }

\* The sequences over S of length n, and of length up to n.
RECURSIVE SeqsOfLen(_, _)
SeqsOfLen(S, n) ==
    IF n = 0 THEN { <<>> }
    ELSE { Append(q, x) : q \in SeqsOfLen(S, n - 1), x \in S }

SeqsUpTo(S, n) == UNION { SeqsOfLen(S, k) : k \in 0..n }

\* The logs that up to MaxLog appends to the empty log build.
StoreLogs == { PyList(q) : q \in SeqsUpTo(StoreMessages, MaxLog) }

InitStore ==
    /\ prog \in Progs
    /\ pc = "AwaitingInput"
    /\ model \in ConfiguredModels(prog)
    /\ conversation_history \in StoreLogs
    /\ streaming_mode = FALSE
    /\ clock = MaxClock
    /\ files = ExternalFiles
    /\ saved = [p \in Paths |-> NotSaved]
    /\ sent = <<>>
    /\ error_rendered = FALSE
    /\ loaded = -1
    /\ printed = <<>>
    /\ branch = "init"
    /\ did = {}
    /\ rendered = <<>>
    /\ wire = <<>>

\* The lines typed to the store: a save and a load of one name, and a clear.
StoreLines == { wSave \o Sp \o <<"T">>, wLoad \o Sp \o <<"T">>, wClear }

NextStore ==
    \/ \E raw \in StoreLines, outcome \in SaveOutcomes : CmdSave(raw, outcome)
    \/ \E raw \in StoreLines : CmdLoad(raw)
    \/ \E raw \in StoreLines : CmdClear(raw)

SpecStore == InitStore /\ [][NextStore]_vars

\* ------------------------------------------------------------------
\* The history command on its own, on logs whose contents are as long as
\* the lengths around which show_history cuts.
\* ------------------------------------------------------------------

\* A content of n characters.
Filler(n) == [i \in 1..n |-> "x"]

\* The lengths of the contents: short, and one below, at and above the
\* length each program cuts at.
HistoryLengths == {1, 79, 80, 81, 99, 100, 101}

HistoryMessages ==
    { Message(role, Filler(n), 0) : role \in {"user", "assistant"}, n \in HistoryLengths }

\* The logs of up to MaxLog such messages.
HistoryLogs == { PyList(q) : q \in SeqsUpTo(HistoryMessages, MaxLog) }

InitHistory ==
    /\ prog \in Progs
    /\ pc = "AwaitingInput"
    /\ model \in ConfiguredModels(prog)
    /\ conversation_history \in HistoryLogs
    /\ streaming_mode = FALSE
    /\ clock = MaxClock
    /\ files = ExternalFiles
    /\ saved = [p \in Paths |-> NotSaved]
    /\ sent = <<>>
    /\ error_rendered = FALSE
    /\ loaded = -1
    /\ printed = <<>>
    /\ branch = "init"
    /\ did = {}
    /\ rendered = <<>>
    /\ wire = <<>>

NextHistory == CmdHistory(wHistory)

SpecHistory == InitHistory /\ [][NextHistory]_vars

\* ------------------------------------------------------------------
\* The stream decoder on its own: the loop over iter_lines() (gemma lines
\* 129-138, phi lines 77-86) applied to streams of lines that arrive cut
\* into chunks. The loop is the same text in both programs; prog is phi,
\* whose stream_message reaches it.
\* ------------------------------------------------------------------

\* The streams: the lines of the answers the session meets.
Streams == { ans.lines : ans \in StreamAnswers }

\* The bytes of a stream: every line followed by its end, the last one
\* too unless the stream stops short of it.
WireBytes(lines, ended) ==
    LET all == Concat([i \in 1..Len(lines) |-> lines[i] \o <<NL>>])
    IN IF ended \/ all = <<>> THEN all ELSE SubSeq(all, 1, Len(all) - 1)

\* The sets of up to k places where n bytes can be cut (a cut at c falls
\* after byte c).
RECURSIVE CutSets(_, _)
CutSets(n, k) ==
    IF k = 0 THEN { {} }
    ELSE CutSets(n, k - 1) \cup
         { c \cup {x} : c \in CutSets(n, k - 1), x \in 1..(n - 1) }

\* The chunks that bytes cut at these places arrive in.
RECURSIVE ChunksFrom(_, _, _)
ChunksFrom(bytes, cuts, start) ==
    IF start > Len(bytes) THEN <<>>
    ELSE LET later == { c \in cuts : c >= start } IN
         IF later = {} THEN << SubSeq(bytes, start, Len(bytes)) >>
         ELSE LET c == CHOOSE x \in later : \A y \in later : x <= y
              IN << SubSeq(bytes, start, c) >> \o ChunksFrom(bytes, cuts, c + 1)

\* What a service can send: the bytes of a stream, in one piece.
Wires ==
    { << WireBytes(lines, ended) >> : lines \in Streams, ended \in BOOLEAN }

InitDecoder ==
    /\ prog = "phi"
    /\ pc = "Sending"
    /\ model = DefaultModel(prog)
    /\ conversation_history = PyList(<<>>)
    /\ streaming_mode = TRUE
    /\ clock = 0
    /\ files = ExternalFiles
    /\ saved = [p \in Paths |-> NotSaved]
    /\ sent = <<>>
    /\ error_rendered = FALSE
    /\ loaded = -1
    /\ printed = <<>>
    /\ branch = "init"
    /\ did = {}
    /\ rendered = <<>>
    /\ wire \in Wires

\* The connection delivers the bytes cut at these places.
Arrive(cuts) ==
    /\ pc = "Sending"
    /\ pc' = "Decoding"
    /\ wire' = ChunksFrom(Concat(wire), cuts, 1)
    /\ branch' = "arrive"
    /\ UNCHANGED <<prog, model, conversation_history, streaming_mode, clock, files,
                   saved, sent, error_rendered, loaded, printed, did, rendered>>

\* The loop runs over the lines of the wire: it prints the fragments and
\* ends on a done record ("done"), at the end of the lines ("eof"), or with
\* an exception that is no JSONDecodeError ("raise").
Decode ==
    /\ pc = "Decoding"
    /\ LET run == StreamLoop(iter_lines(wire), 1, <<>>) IN
       /\ printed' = run.out
       /\ branch' = run.end
       /\ pc' = IF run.end = "raise" THEN "Raised" ELSE "Decoded"
    /\ UNCHANGED <<prog, model, conversation_history, streaming_mode, clock, files,
                   saved, sent, error_rendered, loaded, did, rendered, wire>>

NextDecoder ==
    \/ \E cuts \in CutSets(Len(Concat(wire)), MaxCuts) : Arrive(cuts)
    \/ Decode

SpecDecoder == InitDecoder /\ [][NextDecoder]_vars

\* ------------------------------------------------------------------
\* Vocabulary of the properties
\* ------------------------------------------------------------------

RoleOf(msg) == DictGet(msg, "role", PyNone).s
ContentOf(msg) == DictGet(msg, "content", PyNone).s
TimestampOf(msg) == DictGet(msg, "timestamp", PyNone).s

\* The log new is the log old with k more entries at its end.
GrewBy(old, new, k) ==
    /\ old.t = "list" /\ new.t = "list"
    /\ Len(new.items) = Len(old.items) + k
    /\ SubSeq(new.items, 1, Len(old.items)) = old.items

\* The entry of the log h that is k places before its end (0: the last).
FromEnd(h, k) == h.items[Len(h.items) - k]

\* The log new is the log old and, after it, one user message holding text.
GrewByUser(old, new, text) ==
    /\ GrewBy(old, new, 1)
    /\ RoleOf(FromEnd(new, 0)) = <<"user">>
    /\ ContentOf(FromEnd(new, 0)) = text

\* The log new is the log old and, after it, a user message holding text
\* and then an assistant message holding reply.
GrewByExchange(old, new, text, reply) ==
    /\ GrewBy(old, new, 2)
    /\ RoleOf(FromEnd(new, 1)) = <<"user">>
    /\ ContentOf(FromEnd(new, 1)) = text
    /\ RoleOf(FromEnd(new, 0)) = <<"assistant">>
    /\ ContentOf(FromEnd(new, 0)) = reply

\* Some message of the log h holds text.
Holds(h, text) ==
    /\ h.t = "list"
    /\ \E i \in 1..Len(h.items) : ContentOf(h.items[i]) = text

\* A streamed answer that is read up to a record with done = true.
CleanDone(ans) == ans.status = 200 /\ StreamLoop(ans.lines, 1, <<>>).end = "done"

\* The fragments of a streamed answer, in the order of arrival.
Fragments(ans) == StreamLoop(ans.lines, 1, <<>>).out

\* A streamed answer that fails: no success status, or the connection
\* drops before a done record.
FailedStream(ans) ==
    \/ ans.status # 200
    \/ ans.drops /\ StreamLoop(ans.lines, 1, <<>>).end = "eof"

\* The text a complete answer returns.
ReturnedText(ans) == DictGet(JsonLoad(ans.body).val, "response", PyStr(<<>>)).s

\* The words of a line as typed, and its command token without its case.
Typed(raw) == Split(Strip(raw))
TypedCommand(raw) == Lower(Typed(raw)[1])
IsCommandLine(raw) == StartsWith(Strip(raw), "/")

KnownCommands ==
    {wQuit, wExit, wQ, wHelp, wH, wModels, wModel, wSave, wLoad, wClear, wStats,
     wStream, wHistory}

\* The command model <name>, and the name as typed.
IsModelCommand(raw) ==
    IsCommandLine(raw) /\ TypedCommand(raw) = wModel /\ Len(Typed(raw)) > 1
TypedName(raw) == Typed(raw)[2]

UnknownCommand(raw) == IsCommandLine(raw) /\ TypedCommand(raw) \notin KnownCommands

MissingArgument(raw) ==
    IsCommandLine(raw) /\ TypedCommand(raw) \in {wModel, wLoad} /\ Len(Typed(raw)) = 1

\* The step leaves the session's state as it was, reports an error and
\* goes back to reading input.
RejectedUnchanged ==
    /\ pc' = "AwaitingInput"
    /\ error_rendered'
    /\ UNCHANGED <<model, conversation_history, streaming_mode>>

\* A well-formed message, and a file that holds a well-formed transcript.
IsMessage(v) ==
    /\ v.t = "dict"
    /\ HasKey(v, "role") /\ HasKey(v, "content") /\ HasKey(v, "timestamp")
    /\ RoleOf(v) \in {<<"user">>, <<"assistant">>}
    /\ DictGet(v, "content", PyNone).t = "str"

WellFormedFile(file) ==
    /\ file.exists
    /\ JsonLoad(file.text).ok
    /\ LET doc == JsonLoad(file.text).val IN
       /\ doc.t = "dict"
       /\ HasKey(doc, "conversation")
       /\ LET conv == DictGet(doc, "conversation", PyNone) IN
          /\ conv.t = "list"
          /\ \A i \in 1..Len(conv.items) : IsMessage(conv.items[i])

\* The file a load command on the line raw opens.
FileLoaded(raw) == files[Dispatch[prog][raw].argument]

He == <<"H", "e">>
Llo == <<"l", "l", "o">>

\* ------------------------------------------------------------------
\* Properties
\* ------------------------------------------------------------------

C2_CompleteTurnAppendsExchange ==
    [][\A raw \in InputLines : Reads(raw, "prompt") =>
          \A t1 \in Instants, t2 \in Instants, ans \in CompleteAnswers :
             (ans.status = 200 /\ PromptComplete(raw, t1, t2, ans)) =>
                 GrewByExchange(conversation_history, conversation_history',
                                Strip(raw), ReturnedText(ans))]_vars

\* C3 as stated: no error of a turn ends the session; the loop is left only
\* through quit, exit or q, or through an interrupt.
C3_LoopLeftOnlyByQuitOrInterrupt ==
    [][(pc = "AwaitingInput" /\ pc' # "AwaitingInput") =>
          branch' \in {"quit", "interrupt"}]_vars

\* C4: a query that fails (complete mode: no success status; streaming
\* mode: no success status, or the connection drops before a done record)
\* leaves the log longer by exactly the user message of that turn, with
\* every earlier entry as it was.
C4_FailedQueryKeepsUserMessage ==
    [][\A raw \in InputLines : Reads(raw, "prompt") =>
          /\ \A t1 \in Instants, t2 \in Instants, ans \in CompleteAnswers :
                (ans.status # 200 /\ PromptComplete(raw, t1, t2, ans)) =>
                    GrewByUser(conversation_history, conversation_history', Strip(raw))
          /\ \A t1 \in Instants, ans \in StreamAnswers :
                (FailedStream(ans) /\ PromptStream(raw, t1, ans)) =>
                    GrewByUser(conversation_history, conversation_history', Strip(raw))
      ]_vars

\* A complete-mode query was posted and failed: the error is on the
\* screen, the controller is back at the prompt, and the log ends with the
\* user message of a second turn.
C4_Witness ==
    /\ pc = "AwaitingInput"
    /\ branch = "prompt"
    /\ ~streaming_mode
    /\ sent # <<>>
    /\ error_rendered
    /\ conversation_history.t = "list"
    /\ Len(conversation_history.items) = 2
    /\ RoleOf(FromEnd(conversation_history, 0)) = <<"user">>
    /\ RoleOf(FromEnd(conversation_history, 1)) = <<"user">>

\* C5: a line that begins with "/" is never forwarded: the step that
\* handles it posts no generate request and appends no message. Either a
\* step posts nothing and leaves the log as it is, or no line that begins
\* with "/" is the one it handles, or that line is a load or a clear (which
\* replace the log), nothing is posted, and the log holds no message with
\* the line's text that it did not hold before.
C5_CommandLineNeverForwarded ==
    [][\/ sent' = <<>> /\ UNCHANGED conversation_history
       \/ \A raw \in InputLines :
             (Reads(raw, Dispatch[prog][raw].branch) /\ IsCommandLine(raw) /\ Turn(raw)) =>
                 /\ sent' = <<>>
                 /\ TypedCommand(raw) \in {wLoad, wClear}
                 /\ Holds(conversation_history', Strip(raw)) =>
                        Holds(conversation_history, Strip(raw))]_vars

\* A line that begins with "/" and names no command was handled while the
\* log held a message: nothing was posted and the controller reads on.
C5_Witness ==
    /\ pc = "AwaitingInput"
    /\ branch = "unknown"
    /\ sent = <<>>
    /\ error_rendered
    /\ conversation_history.t = "list"
    /\ Len(conversation_history.items) = 1

\* C6 as stated: the command model <name>, its token in any case and its
\* argument as typed, rebinds the model to exactly that name when the
\* service lists that name, and every generate request carries the model
\* in use.
C6_ModelCommandBindsTypedName ==
    [][/\ \A raw \in InputLines : Reads(raw, Dispatch[prog][raw].branch) =>
             \A tags \in TagsAnswers :
                (/\ IsModelCommand(raw)
                 /\ InList(TypedName(raw), get_available_models(tags))
                 /\ CmdModel(raw, tags)) => model' = TypedName(raw)
       /\ sent' # <<>> => DictGet(sent'[1], "model", PyNone).s = model
      ]_vars

\* C7 as stated: a command that names no known command, a model or load
\* command without its argument, and a model command whose name the
\* service does not list leave the model, the log and the streaming flag
\* as they were, render an error and return to the prompt.
C7_ValidationErrorChangesNothing ==
    [][\A raw \in InputLines : Reads(raw, Dispatch[prog][raw].branch) =>
          /\ ((UnknownCommand(raw) \/ MissingArgument(raw)) /\ Turn(raw)) =>
                 RejectedUnchanged
          /\ \A tags \in TagsAnswers :
                (/\ IsModelCommand(raw)
                 /\ ~InList(TypedName(raw), get_available_models(tags))
                 /\ CmdModel(raw, tags)) => RejectedUnchanged
      ]_vars

\* C8 as stated: a load of a path that cannot be read, or of a document
\* that is no JSON text, no record, or has no well-formed conversation,
\* reports an error and leaves the log, the model and the streaming flag
\* as they were.
C8_FailedLoadChangesNothing ==
    [][\A raw \in InputLines :
          (Reads(raw, "load") /\ ~WellFormedFile(FileLoaded(raw)) /\ CmdLoad(raw)) =>
              /\ error_rendered'
              /\ UNCHANGED <<conversation_history, model, streaming_mode>>]_vars

\* C9: what a save wrote in full to a path, a load of that path into an
\* empty log reads back as the log that was saved: the same messages in
\* the same order, each with its role, content and timestamp.
C9_SaveThenLoadRestoresLog ==
    \A p \in Paths :
        saved[p].valid =>
            load_conversation(files[p], PyList(<<>>)) =
                [history |-> saved[p].log, ok |-> TRUE]

\* A log of two messages with different roles and instants was saved to
\* a path and a load of that path has just reported two messages: the log
\* is the one that was saved.
C9_Witness ==
    \E p \in Paths :
        /\ saved[p].valid
        /\ branch = "load"
        /\ loaded = 2
        /\ conversation_history = saved[p].log
        /\ RoleOf(conversation_history.items[1]) # RoleOf(conversation_history.items[2])
        /\ TimestampOf(conversation_history.items[1]) #
               TimestampOf(conversation_history.items[2])

\* C10: after a successful probe, startup with a list of models that is
\* not empty and lacks the configured model takes the first listed model;
\* with a list that holds the configured model, or with an empty list, it
\* keeps the configured model; in every case the controller goes on to
\* read input, and with a list that is not empty the model is a listed one.
C10_StartupModelSubstitution ==
    [][pc = "Start" =>
          \A probe \in TagsAnswers, tags \in TagsAnswers :
             (probe.status = 200 /\ Startup(probe, tags)) =>
                 LET listed == get_available_models(tags) IN
                 /\ pc' = "AwaitingInput"
                 /\ (listed # <<>> /\ ~InList(model, listed)) => model' = listed[1]
                 /\ InList(model, listed) => model' = model
                 /\ listed = <<>> => model' = model
                 /\ listed # <<>> => InList(model', listed)]_vars

\* Startup met a list that begins with M2 and lacks the configured model:
\* the session reads input with M2 as its model, the substitution announced.
C10_Witness ==
    /\ branch = "startup"
    /\ pc = "AwaitingInput"
    /\ model = M2
    /\ error_rendered

\* C11: a startup whose probe fails ends the program at once: the
\* controller goes from Start to Exited, asks for no models, posts no
\* generate request, leaves the log empty and the files as they are, and
\* offers no save; nothing happens after Exited. Conversely a generate
\* request is posted only from AwaitingInput, and AwaitingInput is entered
\* only by a startup whose probe succeeded.
C11_FailedProbeEndsProgram ==
    [][/\ pc = "Start" =>
             \A probe \in TagsAnswers, tags \in TagsAnswers :
                (probe.status # 200 /\ Startup(probe, tags)) =>
                    /\ pc' = "Exited"
                    /\ sent' = <<>>
                    /\ did' = {}
                    /\ conversation_history' = PyList(<<>>)
                    /\ files' = files
       /\ pc # "Exited"
       /\ sent' # <<>> => pc = "AwaitingInput"
       /\ (pc # "AwaitingInput" /\ pc' = "AwaitingInput") =>
             \E probe \in TagsAnswers, tags \in TagsAnswers :
                probe.status = 200 /\ Startup(probe, tags)
      ]_vars

\* The probe failed: the program is over after its first step, with the
\* diagnostic rendered, no models asked for and nothing in the log.
C11_Witness ==
    /\ pc = "Exited"
    /\ branch = "startup"
    /\ error_rendered
    /\ did = {}
    /\ sent = <<>>
    /\ conversation_history = PyList(<<>>)

\* The lines that hold a quit, exit or q command.
QuitLines ==
    { raw \in InputLines : IsCommandLine(raw) /\ TypedCommand(raw) \in {wQuit, wExit, wQ} }

\* C12: a quit, exit or q command, and an interrupt while the controller
\* waits for input, move the controller from AwaitingInput straight to
\* Terminating, with nothing posted and the log as it was. From
\* Terminating the only step is the one to Exited: it handles no line,
\* posts nothing, leaves the log alone, and offers to save exactly when the
\* log is not the empty log.
C12_QuitOrInterruptTerminates ==
    [][/\ \A raw \in QuitLines :
             (Reads(raw, Dispatch[prog][raw].branch) /\ Turn(raw)) =>
                 /\ pc' = "Terminating"
                 /\ sent' = <<>>
                 /\ UNCHANGED conversation_history
       /\ branch' = "interrupt" =>
             /\ pc = "AwaitingInput" /\ pc' = "Terminating"
             /\ sent' = <<>>
             /\ UNCHANGED conversation_history
       /\ pc = "Terminating" =>
             /\ pc' = "Exited"
             /\ branch' = "exit"
             /\ sent' = <<>>
             /\ UNCHANGED conversation_history
             /\ ("offer" \in did') <=> (conversation_history # PyList(<<>>))
             /\ files' # files => "offer" \in did'
      ]_vars

\* The session was left with a message in its log: the save was offered
\* and accepted, the transcript is on the disk and the program is over.
C12_Witness ==
    /\ pc = "Exited"
    /\ branch = "exit"
    /\ did = {"offer"}
    /\ saved[DefaultFilename(prog)].valid
    /\ saved[DefaultFilename(prog)].log = conversation_history
    /\ conversation_history.t = "list"
    /\ Len(conversation_history.items) = 1

\* The lines of the wire as the service wrote them: its bytes put together
\* and split at the line ends.
SentLines == SplitLines(Concat(wire))

\* A line that parses as a record, and one that holds a JSON value that is
\* no record.
IsRecordLine(line) ==
    line # <<>> /\ JsonLoad(line).ok /\ JsonLoad(line).val.t = "dict"

IsStrayValueLine(line) ==
    line # <<>> /\ JsonLoad(line).ok /\ JsonLoad(line).val.t # "dict"

\* A record that carries a response text or a done marker.
CarriesSomething(line) ==
    IsRecordLine(line) /\
    (HasKey(JsonLoad(line).val, "response") \/ HasKey(JsonLoad(line).val, "done"))

IsDoneLine(line) ==
    IsRecordLine(line) /\ Truthy(DictGet(JsonLoad(line).val, "done", PyBool(FALSE)))

\* The records of a stream up to and including the first one with done =
\* true (all of them when there is none), and their response texts.
RecordsToDone(lines) ==
    LET recs == SelectSeq(lines, IsRecordLine)
        dones == { i \in 1..Len(recs) : IsDoneLine(recs[i]) }
    IN IF dones = {} THEN recs
       ELSE SubSeq(recs, 1, CHOOSE i \in dones : \A j \in dones : i <= j)

HasResponse(line) == HasKey(JsonLoad(line).val, "response")

ResponseTexts(recs) ==
    LET with == SelectSeq(recs, HasResponse)
    IN [i \in 1..Len(with) |-> DictGet(JsonLoad(with[i]).val, "response", PyNone).s]

\* C13 as stated: the decoder skips every line that does not parse as a
\* record and every record with neither a response nor a done marker,
\* without raising and without ending the stream: it prints what it prints
\* for the stream without these lines.
C13_DecoderSkipsBadLines ==
    [][Decode =>
          /\ pc' = "Decoded"
          /\ printed' = StreamLoop(SelectSeq(SentLines, CarriesSomething), 1, <<>>).out
      ]_vars

C15_ChunkingIndependence ==
    [][Decode =>
          LET whole == StreamLoop(iter_lines(<< Concat(wire) >>), 1, <<>>)
          IN printed' = whole.out /\ branch' = whole.end]_vars

\* The stream "He", "llo", done arrived in three chunks, the second cut
\* inside the second record: the decoder printed "He" and "llo" and ended
\* on the done record.
C15_Witness ==
    /\ pc = "Decoded"
    /\ branch = "done"
    /\ printed = <<He, Llo>>
    /\ Len(wire) = 3
    /\ wire[1] = FragLine(He) \o <<NL>>
    /\ Len(wire[2]) = 2
    /\ SentLines = <<FragLine(He), NotDoneLine(Llo), DoneLine>>

\* The instant an isoformat() text stands for.
InstantOf(ts) == CHOOSE t \in 0..(Len(Digits) - 1) : IsoFormat(t) = ts

\* C16 as stated: in every reachable state the timestamps of the log
\* never decrease from one entry to the next, also for entries appended
\* after a load.
C16_TimestampsMonotonic ==
    (/\ conversation_history.t = "list"
     /\ \A i \in 1..Len(conversation_history.items) :
           IsMessage(conversation_history.items[i])) =>
        \A i \in 2..Len(conversation_history.items) :
            InstantOf(TimestampOf(conversation_history.items[i - 1])) <=
                InstantOf(TimestampOf(conversation_history.items[i]))

\* The lines by what is typed on them: a help, models, model, save, stats,
\* stream or history command; a clear command; a load command with its
\* argument; a prompt.
FrameLines ==
    { raw \in InputLines :
        IsCommandLine(raw) /\
        TypedCommand(raw) \in {wHelp, wH, wModels, wModel, wSave, wStats, wStream, wHistory} }

ClearLines == { raw \in InputLines : IsCommandLine(raw) /\ TypedCommand(raw) = wClear }

LoadLines ==
    { raw \in InputLines :
        IsCommandLine(raw) /\ TypedCommand(raw) = wLoad /\ Len(Typed(raw)) > 1 }

TypedPromptLines == { raw \in InputLines : Strip(raw) # <<>> /\ ~IsCommandLine(raw) }

\* The step handles the line raw.
Handles(raw) == Reads(raw, Dispatch[prog][raw].branch) /\ Turn(raw)

\* The conversation of the document in a file.
ConversationIn(file) ==
    DictGet(JsonLoad(file.text).val, "conversation", PyList(<<>>))

\* C17: the log changes only by append, clear and load. A step that
\* changes it handles a prompt, a clear or a load, and no help, models,
\* model, save, stats, stream or history command; a prompt turn leaves
\* every entry of the log where and as it was and adds one or two entries
\* after them; a clear makes the log empty; a load that reports success
\* makes the log the conversation of the file.
C17_LogChangesOnlyByAppendClearLoad ==
    [][/\ conversation_history' # conversation_history =>
             /\ \E raw \in TypedPromptLines \cup ClearLines \cup LoadLines : Handles(raw)
             /\ \A raw \in FrameLines : ~Handles(raw)
             /\ \A raw \in TypedPromptLines :
                   Handles(raw) =>
                       \/ GrewBy(conversation_history, conversation_history', 1)
                       \/ GrewBy(conversation_history, conversation_history', 2)
       /\ branch' = "clear" =>
             \A raw \in ClearLines :
                 Handles(raw) => conversation_history' = PyList(<<>>)
       /\ (branch' = "load" /\ loaded' # -1) =>
             \A raw \in LoadLines :
                 Handles(raw) =>
                     conversation_history' = ConversationIn(FileLoaded(raw))
      ]_vars

\* A second prompt turn, in streaming mode, printed "He" and "llo": the
\* log holds the user message of the turn before it and, after it, the
\* user message of this turn.
C17_Witness ==
    /\ pc = "AwaitingInput"
    /\ branch = "prompt"
    /\ streaming_mode
    /\ printed = <<He, Llo>>
    /\ conversation_history.t = "list"
    /\ Len(conversation_history.items) = 2
    /\ RoleOf(conversation_history.items[1]) = <<"user">>
    /\ RoleOf(conversation_history.items[2]) = <<"user">>

\* The lines that hold a stream command.
StreamLines == { raw \in InputLines : IsCommandLine(raw) /\ TypedCommand(raw) = wStream }

\* C18: the streaming flag is off when the loop starts; a stream command
\* makes it the opposite of what it was; no other step changes it; a
\* request for a completion asks for the mode the flag holds (the flag is
\* not touched by the turn), and fragments are printed in streaming mode
\* only.
C18_StreamingFlagToggles ==
    [][/\ pc = "Start" => ~streaming_mode /\ ~streaming_mode'
       /\ branch' = "stream" =>
             \A raw \in StreamLines :
                 Handles(raw) => streaming_mode' = ~streaming_mode
       /\ streaming_mode' # streaming_mode =>
             \E raw \in StreamLines : Handles(raw)
       /\ sent' # <<>> =>
             /\ UNCHANGED streaming_mode
             /\ \A i \in 1..Len(sent') :
                   DictGet(sent'[i], "stream", PyNone) = PyBool(streaming_mode)
       /\ printed' # <<>> => streaming_mode /\ sent' # <<>>
      ]_vars

\* The stream command was given while streaming was on: it is off again.
C18_Witness ==
    /\ pc = "AwaitingInput"
    /\ branch = "stream"
    /\ ~streaming_mode

\* The lines that hold a model command with its argument.
ModelLines == { raw \in InputLines : IsModelCommand(raw) }

\* C19 as stated: once the loop has started, the model changes only in a
\* step that handles a model command, and the name typed on that command
\* is then one of the names the service lists. (The host and the port are
\* never assigned after the constructor: Host is a constant of the
\* session.)
C19_ModelChangesOnlyOnAvailableName ==
    [][(pc = "AwaitingInput" /\ model' # model) =>
          /\ branch' = "model"
          /\ \A raw \in ModelLines : \A tags \in TagsAnswers :
                (Reads(raw, "model") /\ CmdModel(raw, tags)) =>
                    InList(TypedName(raw), get_available_models(tags))
      ]_vars

\* The history command rendered the log: an entry for every message of the
\* log, in the order of the log, numbered from 1, with the role of the
\* message; the log is what it was.
RenderedOldestFirst ==
    /\ UNCHANGED conversation_history
    /\ Len(rendered') = Len(conversation_history.items)
    /\ \A i \in 1..Len(rendered') :
          /\ rendered'[i].number = i
          /\ rendered'[i].role = RoleOf(conversation_history.items[i])

\* C20 as stated: the history command renders every entry of the log,
\* oldest first, the preview of every entry is at most 100 characters
\* long, and the log is left as it was.
C20_HistoryPreviewAtMost100 ==
    [][branch' = "history" =>
          /\ RenderedOldestFirst
          /\ \A i \in 1..Len(rendered') : Len(rendered'[i].preview) <= 100
      ]_vars

\* C20 amended: the history command renders every entry of the log, oldest
\* first, and leaves the log as it was; a content of at most 100 characters
\* (80 in phi) is rendered whole, a longer one as its first 100 (80)
\* characters followed by "...", so that no preview is longer than 103
\* (83) characters.
C20_HistoryPreviewCutWithEllipsis ==
    [][branch' = "history" =>
          /\ RenderedOldestFirst
          /\ \A i \in 1..Len(rendered') :
                LET content == ContentOf(conversation_history.items[i])
                    preview == rendered'[i].preview
                    kept == IF prog = "gemma" THEN 100 ELSE 80
                IN /\ Len(preview) <= kept + 3
                   /\ Len(content) <= kept => preview = content
                   /\ Len(content) > kept =>
                         /\ Len(preview) = kept + 3
                         /\ SubSeq(preview, 1, kept) = SubSeq(content, 1, kept)
                         /\ SubSeq(preview, kept + 1, kept + 3) = <<".", ".", ".">>
      ]_vars

\* gemma rendered a log of two messages, the second of 101 characters: its
\* preview is 103 characters long.
C20_Witness ==
    /\ prog = "gemma"
    /\ branch = "history"
    /\ Len(rendered) = 2
    /\ Len(ContentOf(conversation_history.items[2])) = 101
    /\ Len(rendered[2].preview) = 103

\* C21 as stated: an interrupt is a way out of the loop while a line is
\* read and at no other time; after a prompt turn during which the user
\* interrupted the request in flight, the program is at its prompt again.
C21_InterruptInFlightDoesNotEndSession ==
    [][/\ "interrupted" \in did' => pc' = "AwaitingInput"
       /\ branch' = "interrupt" => pc = "AwaitingInput" /\ pc' = "Terminating"
      ]_vars

\* C22 as stated: the two controllers are the same machine. Whatever line
\* a step handles, both programs take it to the same branch of the loop
\* with the same argument and the same prompt; whatever a streamed answer
\* holds, both programs print the same, and both stay in the loop or both
\* leave it; after an interrupt in the loop body, and after an exception
\* in it, both programs are in the same controller state.
C22_ControllersIdentical ==
    [][\A raw \in InputLines :
          Handles(raw) =>
              /\ Dispatch["gemma"][raw] = Dispatch["phi"][raw]
              /\ (branch' = "prompt" /\ streaming_mode) =>
                    \A ans \in StreamAnswers :
                        /\ stream_message("gemma", ans).raised =
                               stream_message("phi", ans).raised
                        /\ stream_message("gemma", ans).printed =
                               stream_message("phi", ans).printed
              /\ "interrupted" \in did' =>
                    AfterInterrupt("gemma") = AfterInterrupt("phi")
              /\ (pc' # pc /\ branch' # "quit" /\ "interrupted" \notin did') =>
                    AfterException("gemma") = AfterException("phi")
      ]_vars

\* Every assistant message of the log h has a user message right before it.
Paired(h) ==
    /\ h.t = "list"
    /\ \A i \in 1..Len(h.items) :
          RoleOf(h.items[i]) = <<"assistant">> =>
              i > 1 /\ RoleOf(h.items[i - 1]) = <<"user">>

\* C23: in a session that loads no file, after every step every assistant
\* message of the log has a user message right before it (the log does
\* not begin with an assistant message and holds no two of them side by
\* side), and a step that puts an assistant message at the end of the log
\* has put the user message before it there in the same step.
C23_AssistantFollowsUser ==
    [][/\ Paired(conversation_history')
       /\ (/\ conversation_history' # conversation_history
           /\ conversation_history'.items # <<>>
           /\ RoleOf(FromEnd(conversation_history', 0)) = <<"assistant">>) =>
             /\ GrewBy(conversation_history, conversation_history', 2)
             /\ RoleOf(FromEnd(conversation_history', 1)) = <<"user">>
      ]_vars

\* In a session without a load a prompt turn in complete mode was answered:
\* the log holds the user message of the turn and then the assistant
\* message.
C23_Witness ==
    /\ pc = "AwaitingInput"
    /\ branch = "prompt"
    /\ ~error_rendered
    /\ conversation_history.t = "list"
    /\ Len(conversation_history.items) = 2
    /\ RoleOf(FromEnd(conversation_history, 0)) = <<"assistant">>
    /\ RoleOf(FromEnd(conversation_history, 1)) = <<"user">>

\* The request that holds the model in use, the line raw stripped and the
\* streaming flag.
RequestFor(raw) ==
    << PyDict(<<"model", "prompt", "stream">>,
              <<PyStr(model), PyStr(Strip(raw)), PyBool(streaming_mode)>>) >>

\* C24: the request of a prompt turn is made of the model in use, the
\* line typed (stripped) and the streaming flag, and of nothing else. A
\* step that posts a request handles a prompt line and posts the one
\* request that holds exactly these three, and every prompt turn on a log
\* that is a list posts it, whatever the list holds. (A log that is no
\* list, which only the load of a file with such a conversation leaves
\* behind as in C8, ends the turn at the append, before any request.)
C24_RequestIndependentOfLog ==
    [][/\ sent' # <<>> =>
             \E raw \in TypedPromptLines : Handles(raw) /\ sent' = RequestFor(raw)
       /\ (branch' = "prompt" /\ conversation_history.t = "list") =>
             \A raw \in TypedPromptLines : Handles(raw) => sent' = RequestFor(raw)
      ]_vars

\* A request was posted from a log that a load had filled with the
\* transcript of an earlier session: the log holds that transcript's
\* message and, after it, the user message of this turn.
C24_Witness ==
    /\ sent # <<>>
    /\ branch = "prompt"
    /\ conversation_history.t = "list"
    /\ Len(conversation_history.items) = 2
    /\ ContentOf(conversation_history.items[1]) = <<"o", "l", "d">>
    /\ RoleOf(conversation_history.items[2]) = <<"user">>
    /\ DictGet(sent[1], "prompt", PyNone) = PyStr(ContentOf(conversation_history.items[2]))

=============================================================================
